---- MODULE Spec2Model ----
(***************************************************************************)
(* Model of sportsref_nfl: the Elo walk of core/schedule.py                *)
(* (Schedule.__init__, next_init_elo, next_elo_prob, next_elo_delta).      *)
(*                                                                         *)
(* Numbers.  The schedule holds Python/numpy floats.  A float is modelled  *)
(* as a record [k, v]: k = "num" with v the value in units of 1/Scale      *)
(* (fixed point, products and quotients rounded to the nearest unit),      *)
(* k = "nan" for a pandas null (None and NaN are both null to pd.isnull),  *)
(* k = "inf" with v = 1 or -1 for the two infinities.  The operators F...  *)
(* follow the IEEE rules numpy applies to nan and inf.                     *)
(***************************************************************************)
EXTENDS Integers, Sequences, FiniteSets, TLC

\* Fixed-point resolution of the modelled floats: 1.0 is Scale units.
Scale == 10 ^ 4

Abs(n) == IF n < 0 THEN -n ELSE n

Sgn(n) == IF n < 0 THEN -1 ELSE IF n > 0 THEN 1 ELSE 0

Max2(a, b) == IF a >= b THEN a ELSE b

Min2(a, b) == IF a <= b THEN a ELSE b

\* a / b rounded to the nearest integer (half away from zero), b # 0.
RoundDiv(a, b) == Sgn(a) * Sgn(b) * ((2 * Abs(a) + Abs(b)) \div (2 * Abs(b)))

\* Fixed-point product a * b / Scale, split so that no intermediate value
\* leaves the 32-bit range of the checker's integers.
MulS(a, b) ==
    LET big == Max2(Abs(a), Abs(b))
        small == Min2(Abs(a), Abs(b))
    IN  Sgn(a) * Sgn(b) *
          ((big \div Scale) * small + ((big % Scale) * small + Scale \div 2) \div Scale)

\* Fixed-point quotient a * Scale / b, b # 0.
DivS(a, b) ==
    IF b % Scale = 0 THEN RoundDiv(a, b \div Scale) ELSE RoundDiv(a * Scale, b)

Num(v) == [k |-> "num", v |-> v]

\* The float with the decimal value whole + frac / Scale.
Flt(whole, frac) == Num(whole * Scale + frac)

Null == [k |-> "nan", v |-> 0]

Inf(s) == [k |-> "inf", v |-> s]

\* pd.isnull / Series.isnull: None and NaN are null, infinities are not.
isnull(x) == x.k = "nan"

IsNum(x) == x.k = "num"

FSign(x) == Sgn(x.v)

FNeg(x) == [k |-> x.k, v |-> -x.v]

FAdd(x, y) ==
    IF isnull(x) \/ isnull(y) THEN Null
    ELSE IF x.k = "inf" /\ y.k = "inf" THEN (IF x.v = y.v THEN x ELSE Null)
    ELSE IF x.k = "inf" THEN x
    ELSE IF y.k = "inf" THEN y
    ELSE Num(x.v + y.v)

FSub(x, y) == FAdd(x, FNeg(y))

FMul(x, y) ==
    IF isnull(x) \/ isnull(y) THEN Null
    ELSE IF x.k = "inf" \/ y.k = "inf"
         THEN (IF FSign(x) * FSign(y) = 0 THEN Null ELSE Inf(FSign(x) * FSign(y)))
    ELSE Num(MulS(x.v, y.v))

\* numpy float64 division: x / 0 is nan for x = 0 and +-inf otherwise.
FDiv(x, y) ==
    IF isnull(x) \/ isnull(y) THEN Null
    ELSE IF x.k = "inf" THEN (IF y.k = "inf" THEN Null
                              ELSE Inf(x.v * (IF y.v < 0 THEN -1 ELSE 1)))
    ELSE IF y.k = "inf" THEN Num(0)
    ELSE IF y.v = 0 THEN (IF x.v = 0 THEN Null ELSE Inf(Sgn(x.v)))
    ELSE Num(DivS(x.v, y.v))

FAbs(x) == [k |-> x.k, v |-> Abs(x.v)]

\* x > 0 and x == 0 as Python evaluates them: False whenever x is nan.
FGt0(x) == ~isnull(x) /\ x.v > 0

FEq0(x) == IsNum(x) /\ x.v = 0

\* float(b) of a Python bool.
FBool(b) == IF b THEN Num(Scale) ELSE Num(0)

\* Natural logarithms of 1..11 in units of 1/Scale.
LnTable == <<0, 6931, 10986, 13863, 16094, 17918, 19459, 20794, 21972, 23026, 23979>>

\* np.log on the whole numbers the score margins produce.
FLog(x) ==
    IF isnull(x) THEN Null
    ELSE IF x.k = "inf" THEN x
    ELSE Num(LnTable[x.v \div Scale])

\* 10 ** (a / 10) and 10 ** (b / 100) for a, b in 0..9, in units of 1/Scale.
Pow10Tenths == <<10000, 12589, 15849, 19953, 25119, 31623, 39811, 50119, 63096, 79433>>

Pow10Hundredths == <<10000, 10233, 10471, 10715, 10965, 11220, 11482, 11749, 12023, 12303>>

\* 10 ** (e / Scale) for 0 <= e, in units of 1/Scale: the exponent is split
\* into its whole part, tenths, hundredths and a remainder r < 0.01 for
\* which 10 ** r = exp(r ln 10) is taken to second order.  Saturates at
\* 10 ** 5, beyond which 1 / (10 ** x + 1) is below the resolution.
Pow10Pos(e) ==
    IF e >= 5 * Scale THEN 100000 * Scale
    ELSE LET q == e \div Scale
             r == e % Scale
             a == r \div 1000
             b == (r % 1000) \div 100
             c == r % 100
             t == RoundDiv(c * 23026, Scale)
             small == Scale + t + (t * t) \div (2 * Scale)
             mant == MulS(MulS(Pow10Tenths[a + 1], Pow10Hundredths[b + 1]), small)
             whole == CASE q = 0 -> 1 [] q = 1 -> 10 [] q = 2 -> 100
                        [] q = 3 -> 1000 [] q = 4 -> 10000
         IN  mant * whole

\* 10 ** x.
FPow10(x) ==
    IF isnull(x) THEN Null
    ELSE IF x.k = "inf" THEN (IF x.v > 0 THEN x ELSE Num(0))
    ELSE IF x.v >= 0 THEN Num(Pow10Pos(x.v))
    ELSE Num(RoundDiv(Scale * Scale, Pow10Pos(-x.v)))

(***************************************************************************)
(* Parameter defaults of the three walk methods.                           *)
(***************************************************************************)
\* init_elo set to the league mean.
init_elo_Mean == Flt(1505, 0)

init_elo == Flt(1300, 0)

regress_pct == Flt(0, 3330)

\* The league mean a rating regresses to at a season boundary.
mean_elo == Flt(1505, 0)

homefield == Flt(48, 0)

travel == Flt(0, 40)

rested == Flt(25, 0)

playoffs == Flt(1, 2000)

elo2points == Flt(0, 400)

\* k_factor at half its default.
k_factor_Ten == Flt(10, 0)

k_factor == Flt(20, 0)

(***************************************************************************)
(* The schedule: the DataFrame self.schedule as a sequence of rows, row i  *)
(* of the model being index i - 1 of the frame.                            *)
(***************************************************************************)
\* schedule and pc are the frame of Schedule and the position in its
\* construction; new, by_team, by_opponent and qb_ind are the frames and the
\* loop index of get_qb_elos.
VARIABLES schedule, pc, new, by_team, by_opponent, qb_ind,
          now, metadata, cache_files, call

vars ==
    <<schedule, pc, new, by_team, by_opponent, qb_ind,
      now, metadata, cache_files, call>>

qbvars == <<new, by_team, by_opponent, qb_ind>>

\* get_qb_elos has not been called.
NoQBElos == new = <<>> /\ by_team = <<>> /\ by_opponent = <<>> /\ qb_ind = 0

\* The clock, the page cache (metadata and the html files of its directory)
\* and the frame of the running call of get_page.
pagevars == <<now, metadata, cache_files, call>>

\* The frame of get_page for an endpoint before any call.
NoCall(endpoint) ==
    [pc |-> "idle",
     endpoint |-> endpoint,
     use_cache |-> FALSE,
     max_retries |-> 0,
     attempt |-> 0,
     flaresolverr_available |-> FALSE,
     fetches |-> <<>>,
     result |-> "none"]

\* No page is requested and the cache is empty.
NoPages ==
    /\ now = 0
    /\ metadata = <<>>
    /\ cache_files = <<>>
    /\ call = NoCall([kind |-> "other", year |-> <<>>])

\* Length of the game log.
MaxGames == 3

Teams == {"A", "B", "C"}

\* str.isnumeric of a week tag.
isnumeric(week_num) == week_num \in {"1", "2"}

\* The fixtures a season of the model holds: who hosts whom, in which week.
\* week_num is the tag of the source page and week the integer add_weeks
\* derives from it: the number itself for a regular-season week, the week
\* after the regular season for a playoff round.
Fixtures ==
    {[team1 |-> "A", team2 |-> "B", week_num |-> "1", week |-> 1],
     [team1 |-> "C", team2 |-> "A", week_num |-> "WildCard", week |-> 2]}

\* Miles between the home stadiums of two teams (geodesic of add_travel).
Miles(t, u) ==
    CASE {t, u} = {"A", "B"} -> 1000
      [] {t, u} = {"A", "C"} -> 2500
      [] {t, u} = {"B", "C"} -> 500
      [] OTHER -> 0

\* score1 and score2 of a game of the log: unplayed, or a home win.
Outcomes == {<<Null, Null>>, <<Flt(24, 0), Flt(17, 0)>>}

\* Largest number of seasons between one game of the log and the next.
MaxGap == 2

\* What the source pages give for one game: the fixture, the season step
\* from the previous game of the log and the scores.
GameInputs == [fixture : Fixtures, step : 0..MaxGap, scores : Outcomes]

\* Season of game i of a log of inputs: get_schedules appends the seasons in
\* increasing order, the first being season 1.
RECURSIVE SeasonOf(_, _)
SeasonOf(g, i) == IF i = 1 THEN 1 ELSE SeasonOf(g, i - 1) + g[i].step

\* The largest and the smallest element of a non-empty set of row numbers.
Last(S) == CHOOSE i \in S : \A j \in S : j <= i

First(S) == CHOOSE i \in S : \A j \in S : i <= j

(***************************************************************************)
(* next_init_elo                                                           *)
(***************************************************************************)
\* Regress with the regression forgotten.
Regress_Identity(post) == post

\* A rating carried over a season boundary: post + (1505 - post) * regress_pct.
Regress(post) == FAdd(post, FMul(FSub(mean_elo, post), regress_pct))

\* CarriedElo with the dormancy reset left out: any later season regresses.
CarriedElo_NoReset(prev_post, prev_pre, prev_season, season) ==
    IF ~isnull(prev_post)
    THEN IF prev_season < season THEN Regress(prev_post) ELSE prev_post
    ELSE prev_pre

\* CarriedElo with the season rules applied to an unplayed earlier game too.
CarriedElo_RegressUnplayed(prev_post, prev_pre, prev_season, season) ==
    LET last == IF ~isnull(prev_post) THEN prev_post ELSE prev_pre
    IN  IF prev_season = season - 1 THEN Regress(last)
        ELSE IF prev_season < season - 1 THEN init_elo
        ELSE last

\* The pre-game rating of a team that has an earlier game in the log, from
\* that game's post- and pre-game rating and season and the season of the
\* game being rated.
CarriedElo(prev_post, prev_pre, prev_season, season) ==
    IF ~isnull(prev_post)
    THEN IF prev_season = season - 1 THEN Regress(prev_post)
         ELSE IF prev_season < season - 1 THEN init_elo
         ELSE prev_post
    ELSE prev_pre

\* The pre-game rating next_init_elo gives side team_num of row ind of s.
InitEloOf(s, ind, team_num) ==
    LET team == IF team_num = 1 THEN s[ind].team1_abbrev ELSE s[ind].team2_abbrev
        prevs == {j \in 1..(ind - 1) :
                    s[j].team1_abbrev = team \/ s[j].team2_abbrev = team}
    IN  IF prevs # {}
        THEN LET prev == s[Last(prevs)]
                 prev_num == IF prev.team1_abbrev = team THEN 1 ELSE 2
             IN  CarriedElo(IF prev_num = 1 THEN prev.elo1_post ELSE prev.elo2_post,
                            IF prev_num = 1 THEN prev.elo1_pre ELSE prev.elo2_pre,
                            prev.season, s[ind].season)
        ELSE init_elo

\* Rows still without a home pre-game rating.
NullPre(s) == {i \in DOMAIN s : isnull(s[i].elo1_pre)}

\* InitIndex taking the last row without pre-game ratings, not the first.
InitIndex_Last(s) == Last(NullPre(s))

\* The row next_init_elo selects.
InitIndex(s) == First(NullPre(s))

\* The columns merged in by add_elo_columns(qbelo=True) are there.
HasQB(r) == {"qb1_adj", "qb2_adj"} \subseteq DOMAIN r

\* QBInitRow with the QB adjustment added to the team rating itself.
QBInitRow_AdjustsBase(r) ==
    [r EXCEPT !.elo1_pre = FAdd(r.elo1_pre, r.qb1_adj),
              !.elo2_pre = FAdd(r.elo2_pre, r.qb2_adj),
              !.qbelo1_pre = FAdd(r.elo1_pre, r.qb1_adj),
              !.qbelo2_pre = FAdd(r.elo2_pre, r.qb2_adj)]

\* qbelo_pre of both sides: the pre-game rating plus the side's QB adjustment.
QBInitRow(r) ==
    [r EXCEPT !.qbelo1_pre = FAdd(r.elo1_pre, r.qb1_adj),
              !.qbelo2_pre = FAdd(r.elo2_pre, r.qb2_adj)]

InitEloRow(s, ind) ==
    LET base == [s[ind] EXCEPT !.elo1_pre = InitEloOf(s, ind, 1),
                               !.elo2_pre = InitEloOf(s, ind, 2)]
    IN  IF HasQB(base) THEN QBInitRow(base) ELSE base

NextInitElo ==
    /\ pc = "init"
    /\ NullPre(schedule) # {}
    /\ LET ind == InitIndex(schedule)
       IN  schedule' = [schedule EXCEPT ![ind] = InitEloRow(schedule, ind)]
    /\ pc' = "prob"
    /\ UNCHANGED qbvars
    /\ UNCHANGED pagevars

(***************************************************************************)
(* next_elo_prob                                                           *)
(***************************************************************************)
\* EloDiff with the playoff factor applied to the rating gap alone, before
\* the home-field, travel and rest terms are added.
EloDiff_PlayoffFirst(r) ==
    LET d0 == FSub(r.elo1_pre, r.elo2_pre)
        d1 == IF ~isnumeric(r.week_num) THEN FMul(d0, playoffs) ELSE d0
        d2 == FAdd(FAdd(d1, homefield), FMul(travel, FSub(r.travel2, r.travel1)))
        d3 == IF r.rested1 THEN FAdd(d2, rested) ELSE d2
    IN  IF r.rested2 THEN FSub(d3, rested) ELSE d3

\* EloDiff with the two rest terms given the wrong signs.
EloDiff_RestSwapped(r) ==
    LET d0 == FSub(r.elo1_pre, r.elo2_pre)
        d1 == FAdd(d0, homefield)
        d2 == FAdd(d1, FMul(travel, FSub(r.travel2, r.travel1)))
        d3 == IF r.rested1 THEN FSub(d2, rested) ELSE d2
        d4 == IF r.rested2 THEN FAdd(d3, rested) ELSE d3
    IN  IF ~isnumeric(r.week_num) THEN FMul(d4, playoffs) ELSE d4

\* EloDiff with the playoff factor forgotten.
EloDiff_NoPlayoff(r) ==
    LET d0 == FSub(r.elo1_pre, r.elo2_pre)
        d1 == FAdd(d0, homefield)
        d2 == FAdd(d1, FMul(travel, FSub(r.travel2, r.travel1)))
        d3 == IF r.rested1 THEN FAdd(d2, rested) ELSE d2
    IN  IF r.rested2 THEN FSub(d3, rested) ELSE d3

\* The adjusted differential of a row.
\* EloDiff with no home-field advantage at a neutral site.
EloDiff_NeutralNoHomefield(r) ==
    LET d0 == FSub(r.elo1_pre, r.elo2_pre)
        d1 == IF "game_location" \in DOMAIN r /\ r.game_location = "N"
              THEN d0 ELSE FAdd(d0, homefield)
        d2 == FAdd(d1, FMul(travel, FSub(r.travel2, r.travel1)))
        d3 == IF r.rested1 THEN FAdd(d2, rested) ELSE d2
        d4 == IF r.rested2 THEN FSub(d3, rested) ELSE d3
    IN  IF ~isnumeric(r.week_num) THEN FMul(d4, playoffs) ELSE d4

EloDiff(r) ==
    LET d0 == FSub(r.elo1_pre, r.elo2_pre)
        d1 == FAdd(d0, homefield)
        d2 == FAdd(d1, FMul(travel, FSub(r.travel2, r.travel1)))
        d3 == IF r.rested1 THEN FAdd(d2, rested) ELSE d2
        d4 == IF r.rested2 THEN FSub(d3, rested) ELSE d3
    IN  IF ~isnumeric(r.week_num) THEN FMul(d4, playoffs) ELSE d4

\* WinProb with the + 1 of the denominator forgotten.
WinProb_DropOne(diff) == FDiv(Flt(1, 0), FPow10(FDiv(diff, Flt(-400, 0))))

\* 1 / (10 ** (diff / -400) + 1)
WinProb(diff) ==
    FDiv(Flt(1, 0), FAdd(FPow10(FDiv(diff, Flt(-400, 0))), Flt(1, 0)))

\* QBProbRow with the QB-aware values stored over the base values.
QBProbRow_Overwrites(r) ==
    LET qbelo_diff == FSub(FAdd(r.elo_diff, r.qb1_adj), r.qb2_adj)
        qbelo_prob1 == WinProb(qbelo_diff)
    IN  [r EXCEPT !.elo_diff = qbelo_diff,
                  !.point_spread = FMul(qbelo_diff, elo2points),
                  !.elo_prob1 = qbelo_prob1,
                  !.elo_prob2 = FSub(Flt(1, 0), qbelo_prob1),
                  !.qbelo_diff = qbelo_diff,
                  !.qbpoint_spread = FMul(qbelo_diff, elo2points),
                  !.qbelo_prob1 = qbelo_prob1,
                  !.qbelo_prob2 = FSub(Flt(1, 0), qbelo_prob1)]

\* The QB-aware differential, spread and probabilities of a row that has
\* its base values.
QBProbRow(r) ==
    LET qbelo_diff == FSub(FAdd(r.elo_diff, r.qb1_adj), r.qb2_adj)
        qbelo_prob1 == WinProb(qbelo_diff)
    IN  [r EXCEPT !.qbelo_diff = qbelo_diff,
                  !.qbpoint_spread = FMul(qbelo_diff, elo2points),
                  !.qbelo_prob1 = qbelo_prob1,
                  !.qbelo_prob2 = FSub(Flt(1, 0), qbelo_prob1)]

EloProbRow(r) ==
    LET diff == EloDiff(r)
        prob1 == WinProb(diff)
        base == [r EXCEPT !.elo_diff = diff,
                          !.point_spread = FMul(diff, elo2points),
                          !.elo_prob1 = prob1,
                          !.elo_prob2 = FSub(Flt(1, 0), prob1)]
    IN  IF HasQB(base) THEN QBProbRow(base) ELSE base

\* Rows still without a home win probability.
NullProb(s) == {i \in DOMAIN s : isnull(s[i].elo_prob1)}

\* The row next_elo_prob selects.
\* ProbIndex taking the last row without a probability, not the first.
ProbIndex_Last(s) == Last(NullProb(s))

\* The row next_elo_prob selects.
ProbIndex(s) == First(NullProb(s))

NextEloProb ==
    /\ pc = "prob"
    /\ NullProb(schedule) # {}
    /\ LET ind == ProbIndex(schedule)
       IN  schedule' = [schedule EXCEPT ![ind] = EloProbRow(schedule[ind])]
    /\ pc' = "delta"
    /\ UNCHANGED qbvars
    /\ UNCHANGED pagevars

(***************************************************************************)
(* next_elo_delta                                                          *)
(***************************************************************************)
\* ln(|score_diff| + 1) * 2.2 / (elo_diff * 0.001 + 2.2), null replaced by 0.0.
\* MovMultiplier with the margin counted one point higher.
MovMultiplier_PlusTwo(score_diff, elo_diff) ==
    LET mov == FDiv(FMul(FLog(FAdd(FAbs(score_diff), Flt(2, 0))), Flt(2, 2000)),
                    FAdd(FMul(elo_diff, Flt(0, 10)), Flt(2, 2000)))
    IN  IF isnull(mov) THEN Flt(0, 0) ELSE mov

MovMultiplier(score_diff, elo_diff) ==
    LET mov == FDiv(FMul(FLog(FAdd(FAbs(score_diff), Flt(1, 0))), Flt(2, 2000)),
                    FAdd(FMul(elo_diff, Flt(0, 10)), Flt(2, 2000)))
    IN  IF isnull(mov) THEN Flt(0, 0) ELSE mov

ForecastDelta(score_diff, elo_prob1) ==
    FSub(FAdd(FBool(FGt0(score_diff)), FMul(Flt(0, 5000), FBool(FEq0(score_diff)))),
         elo_prob1)

\* PostRatings with the away side moved the same way as the home side.
PostRatings_SameSign(elo1_pre, elo2_pre, elo_delta) ==
    <<FAdd(elo1_pre, elo_delta), FAdd(elo2_pre, elo_delta)>>

\* The post-game ratings of the home and the away side.
PostRatings(elo1_pre, elo2_pre, elo_delta) ==
    <<FAdd(elo1_pre, elo_delta), FSub(elo2_pre, elo_delta)>>

\* Whether next_elo_delta takes the selected row for a played game.
Played(r) == ~isnull(r.score1)

\* EloDeltaRow with the new ratings also stored over the pre-game ratings.
EloDeltaRow_InPlace(r) ==
    IF Played(r)
    THEN LET score_diff == FSub(r.score1, r.score2)
             forecast_delta == ForecastDelta(score_diff, r.elo_prob1)
             mov_multiplier == MovMultiplier(score_diff, r.elo_diff)
             elo_delta == FMul(FMul(forecast_delta, mov_multiplier), k_factor)
             post == PostRatings(r.elo1_pre, r.elo2_pre, elo_delta)
         IN  [r EXCEPT !.score_diff = score_diff,
                       !.forecast_delta = forecast_delta,
                       !.mov_multiplier = mov_multiplier,
                       !.elo_delta = elo_delta,
                       !.elo1_pre = post[1],
                       !.elo2_pre = post[2],
                       !.elo1_post = post[1],
                       !.elo2_post = post[2]]
    ELSE r

EloDeltaRow(r) ==
    IF Played(r)
    THEN LET score_diff == FSub(r.score1, r.score2)
             forecast_delta == ForecastDelta(score_diff, r.elo_prob1)
             mov_multiplier == MovMultiplier(score_diff, r.elo_diff)
             elo_delta == FMul(FMul(forecast_delta, mov_multiplier), k_factor)
             post == PostRatings(r.elo1_pre, r.elo2_pre, elo_delta)
         IN  [r EXCEPT !.score_diff = score_diff,
                       !.forecast_delta = forecast_delta,
                       !.mov_multiplier = mov_multiplier,
                       !.elo_delta = elo_delta,
                       !.elo1_post = post[1],
                       !.elo2_post = post[2]]
    ELSE r

\* Rows with a probability and no rating delta.
PendingDelta(s) ==
    {i \in DOMAIN s : ~isnull(s[i].elo_prob1) /\ isnull(s[i].elo_delta)}

\* DeltaIndex taking the first pending row, not the last.
DeltaIndex_First(s) == First(PendingDelta(s))

\* The row next_elo_delta selects.
DeltaIndex(s) == Last(PendingDelta(s))

NextEloDelta ==
    /\ pc = "delta"
    /\ PendingDelta(schedule) # {}
    /\ LET ind == DeltaIndex(schedule)
       IN  schedule' = [schedule EXCEPT ![ind] = EloDeltaRow(schedule[ind])]
    /\ pc' = "init"
    /\ UNCHANGED qbvars
    /\ UNCHANGED pagevars

\* The loop of __init__ ends once no row lacks elo1_pre.
Finish ==
    /\ pc = "init"
    /\ NullPre(schedule) = {}
    /\ pc' = "done"
    /\ UNCHANGED schedule
    /\ UNCHANGED qbvars
    /\ UNCHANGED pagevars

\* The row of the frame for game i of the inputs g, as it stands after
\* add_rest (which leaves both rested flags True on every row), add_travel
\* and add_elo_columns (which creates the twelve elo columns, all None).
RowOf(g, i) ==
    [season |-> SeasonOf(g, i),
     week_num |-> g[i].fixture.week_num,
     week |-> g[i].fixture.week,
     team1_abbrev |-> g[i].fixture.team1,
     team2_abbrev |-> g[i].fixture.team2,
     score1 |-> g[i].scores[1],
     score2 |-> g[i].scores[2],
     rested1 |-> TRUE,
     rested2 |-> TRUE,
     travel1 |-> Flt(0, 0),
     travel2 |-> Flt(Miles(g[i].fixture.team1, g[i].fixture.team2), 0),
     elo1_pre |-> Null, elo2_pre |-> Null, elo1_post |-> Null, elo2_post |-> Null,
     elo_diff |-> Null, point_spread |-> Null, elo_prob1 |-> Null, elo_prob2 |-> Null,
     score_diff |-> Null, forecast_delta |-> Null, mov_multiplier |-> Null,
     elo_delta |-> Null]

\* The frame of the first n games of the inputs g.
RECURSIVE FrameOf(_, _)
FrameOf(g, n) == IF n = 0 THEN <<>> ELSE Append(FrameOf(g, n - 1), RowOf(g, n))

Init ==
    /\ \E g \in [1..MaxGames -> GameInputs] :
          /\ g[1].step = 0
          /\ schedule = FrameOf(g, MaxGames)
    /\ pc = "init"
    /\ NoQBElos
    /\ NoPages

Next == NextInitElo \/ NextEloProb \/ NextEloDelta \/ Finish

Spec == Init /\ [][Next]_vars

\* The control of the loop of __init__: next_init_elo, next_elo_prob and
\* next_elo_delta in turn while a row lacks elo1_pre, each under the
\* condition that lets it select a row.  A step of Next is a step of Turn
\* and the two are enabled in the same states.
Turn ==
    \/ pc = "init" /\ NullPre(schedule) # {} /\ pc' = "prob"
    \/ pc = "init" /\ NullPre(schedule) = {} /\ pc' = "done"
    \/ pc = "prob" /\ NullProb(schedule) # {} /\ pc' = "delta"
    \/ pc = "delta" /\ PendingDelta(schedule) # {} /\ pc' = "init"

\* The walk as it runs: the loop takes its next step as long as it has one.
SpecWalk == Init /\ [][Next]_vars /\ WF_pc(Turn)

(***************************************************************************)
(* next_elo_prob and next_elo_delta on one row.  Both are public methods   *)
(* that read nothing but the row they select, so here the frame holds one  *)
(* row whose pre-game ratings, context and scores are any values, the      *)
(* records with one score missing included.                                *)
(***************************************************************************)
Ratings == {Flt(1000, 0), Flt(1300, 0), Flt(1348, 0), Flt(1505, 0), Flt(3248, 0)}

RowScores == {Null, Flt(17, 0), Flt(24, 0)}

RowInputs ==
    [elo1_pre : Ratings, elo2_pre : Ratings, week_num : {"1", "WildCard"},
     rested1 : BOOLEAN, rested2 : BOOLEAN,
     travel1 : {Flt(0, 0), Flt(500, 0)}, travel2 : {Flt(0, 0), Flt(1000, 0)},
     score1 : RowScores, score2 : RowScores]

RowFrom(in) ==
    [season |-> 1,
     week_num |-> in.week_num,
     week |-> IF in.week_num = "1" THEN 1 ELSE 2,
     team1_abbrev |-> "A",
     team2_abbrev |-> "B",
     score1 |-> in.score1,
     score2 |-> in.score2,
     rested1 |-> in.rested1,
     rested2 |-> in.rested2,
     travel1 |-> in.travel1,
     travel2 |-> in.travel2,
     elo1_pre |-> in.elo1_pre, elo2_pre |-> in.elo2_pre,
     elo1_post |-> Null, elo2_post |-> Null,
     elo_diff |-> Null, point_spread |-> Null, elo_prob1 |-> Null, elo_prob2 |-> Null,
     score_diff |-> Null, forecast_delta |-> Null, mov_multiplier |-> Null,
     elo_delta |-> Null]

InitRow ==
    /\ \E in \in RowInputs : schedule = <<RowFrom(in)>>
    /\ pc = "prob"
    /\ NoQBElos
    /\ NoPages

NextRow == NextEloProb \/ NextEloDelta \/ Finish

SpecRow == InitRow /\ [][NextRow]_vars

(***************************************************************************)
(* The walk over the first game of a log: one row, both teams without an   *)
(* earlier game, any context and scores.                                   *)
(***************************************************************************)
OpenInputs ==
    {in \in RowInputs : in.elo1_pre = init_elo /\ in.elo2_pre = init_elo}

\* The row of a first game before the walk: no pre-game rating yet.
OpenRow(in) == [RowFrom(in) EXCEPT !.elo1_pre = Null, !.elo2_pre = Null]

InitOpen ==
    /\ \E in \in OpenInputs : schedule = <<OpenRow(in)>>
    /\ pc = "init"
    /\ NoQBElos
    /\ NoPages

SpecOpen == InitOpen /\ [][Next]_vars

(***************************************************************************)
(* The walk over two games of the same two teams that differ in one rested *)
(* flag and in nothing else.  The first game has its pre-game ratings, the *)
(* second takes them over from the first, which is unplayed.               *)
(***************************************************************************)
TwinRatings == {Flt(1000, 0), Flt(1300, 0), Flt(1348, 0), Flt(1505, 0)}

\* side is the side whose flag differs, other the flag of the other side.
TwinInputs ==
    [elo1_pre : TwinRatings, elo2_pre : TwinRatings, week_num : {"1", "WildCard"},
     travel1 : {Flt(0, 0), Flt(500, 0)}, travel2 : {Flt(0, 0), Flt(1000, 0)},
     side : {1, 2}, other : BOOLEAN]

\* The game of the inputs in with the flag of in.side set to flag.
TwinRow(in, flag) ==
    RowFrom([elo1_pre |-> in.elo1_pre, elo2_pre |-> in.elo2_pre,
             week_num |-> in.week_num,
             rested1 |-> IF in.side = 1 THEN flag ELSE in.other,
             rested2 |-> IF in.side = 2 THEN flag ELSE in.other,
             travel1 |-> in.travel1, travel2 |-> in.travel2,
             score1 |-> Null, score2 |-> Null])

InitTwin ==
    /\ \E in \in TwinInputs :
          schedule = <<TwinRow(in, FALSE),
                       [TwinRow(in, TRUE) EXCEPT !.elo1_pre = Null,
                                                 !.elo2_pre = Null]>>
    /\ pc = "prob"
    /\ NoQBElos
    /\ NoPages

SpecTwin == InitTwin /\ [][Next]_vars

(***************************************************************************)
(* The walk with qbelo: add_elo_columns has merged each side's QB          *)
(* adjustment into the frame, two games of the same two teams.             *)
(***************************************************************************)
\* qb_adj of a side: elo_adj times the gap between the quarterback's value
\* and his team's average.
QBAdjustments == {Flt(-33, 0), Flt(0, 0), Flt(49, 5000)}

QBInputs ==
    [week_num : {"1", "WildCard"}, scores : Outcomes,
     qb1_adj : QBAdjustments, qb2_adj : QBAdjustments]

QBRowOf(in) ==
    [season |-> 1,
     week_num |-> in.week_num,
     week |-> IF in.week_num = "1" THEN 1 ELSE 2,
     team1_abbrev |-> "A",
     team2_abbrev |-> "B",
     score1 |-> in.scores[1],
     score2 |-> in.scores[2],
     rested1 |-> TRUE,
     rested2 |-> TRUE,
     travel1 |-> Flt(0, 0),
     travel2 |-> Flt(Miles("A", "B"), 0),
     elo1_pre |-> Null, elo2_pre |-> Null, elo1_post |-> Null, elo2_post |-> Null,
     elo_diff |-> Null, point_spread |-> Null, elo_prob1 |-> Null, elo_prob2 |-> Null,
     score_diff |-> Null, forecast_delta |-> Null, mov_multiplier |-> Null,
     elo_delta |-> Null,
     qb1_adj |-> in.qb1_adj, qb2_adj |-> in.qb2_adj,
     qbelo1_pre |-> Null, qbelo2_pre |-> Null,
     qbelo_diff |-> Null, qbpoint_spread |-> Null,
     qbelo_prob1 |-> Null, qbelo_prob2 |-> Null]

InitQB ==
    /\ \E in1, in2 \in QBInputs : schedule = <<QBRowOf(in1), QBRowOf(in2)>>
    /\ pc = "init"
    /\ NoQBElos
    /\ NoPages

SpecQB == InitQB /\ [][Next]_vars

(***************************************************************************)
(* add_rest.  The frame holds season, week, team1 and team2 of each game;  *)
(* add_rest adds the columns rested1 and rested2.  A cell of the two       *)
(* columns, before their final conversion, is the Python object True or    *)
(* the NaN pandas fills a new column with.                                 *)
(***************************************************************************)
\* Number of games of a frame given to add_rest.
MaxRestGames == 3

\* Week numbers of the frames given to add_rest.
RestWeeks == 1..3

Pairings == {<<"A", "B">>, <<"B", "A">>, <<"C", "A">>, <<"B", "C">>}

\* One game as add_rest reads it: the season step from the game before,
\* the week and the two teams.
RestInputs == [step : 0..1, week : RestWeeks, teams : Pairings]

RestRowOf(g, i) ==
    [season |-> SeasonOf(g, i),
     week |-> g[i].week,
     team1 |-> g[i].teams[1],
     team2 |-> g[i].teams[2]]

RECURSIVE RestFrameOf(_, _)
RestFrameOf(g, n) ==
    IF n = 0 THEN <<>> ELSE Append(RestFrameOf(g, n - 1), RestRowOf(g, n))

\* No team has two games in one week of one season.
OneGameAWeek(s) ==
    \A i, j \in DOMAIN s :
        (i < j /\ s[i].season = s[j].season /\ s[i].week = s[j].week)
        => {s[i].team1, s[i].team2} \cap {s[j].team1, s[j].team2} = {}

\* self.schedule.week.max()
MaxWeek(s) == CHOOSE w \in {s[i].week : i \in DOMAIN s} :
                  \A i \in DOMAIN s : s[i].week <= w

\* team1 and team2 of the rows whose week is w, of whatever season.
WeekTeams(s, w) ==
    {s[i].team1 : i \in {k \in DOMAIN s : s[k].week = w}}
        \cup {s[i].team2 : i \in {k \in DOMAIN s : s[k].week = w}}

\* rested = [team for team in now if team not in prev]
RestedIn(s, w) == WeekTeams(s, w) \ WeekTeams(s, w - 1)

\* The cell of a rested column for a team of row i once the loop over the
\* weeks 2..max has run: True where a pass marked it, NaN where none did.
RestCell(s, i, team) ==
    IF \E w \in 2..MaxWeek(s) : s[i].week = w /\ team \in RestedIn(s, w)
    THEN "True"
    ELSE "NaN"

\* astype(bool) of a cell: bool(True) and bool(float("nan")) are both True.
astype_bool(cell) == cell \in {"True", "NaN"}

AddRestRow(s, i) ==
    [season |-> s[i].season,
     week |-> s[i].week,
     team1 |-> s[i].team1,
     team2 |-> s[i].team2,
     rested1 |-> astype_bool(RestCell(s, i, s[i].team1)),
     rested2 |-> astype_bool(RestCell(s, i, s[i].team2))]

\* add_rest on a frame whose weeks reach 2: the loop creates the columns.
AddRest ==
    /\ pc = "rest"
    /\ MaxWeek(schedule) >= 2
    /\ schedule' = [i \in DOMAIN schedule |-> AddRestRow(schedule, i)]
    /\ pc' = "rested"
    /\ UNCHANGED qbvars
    /\ UNCHANGED pagevars

\* add_rest on a frame of week 1 alone: the loop does not run, the columns
\* do not exist and reading self.schedule.rested1 raises AttributeError.
AddRestFails ==
    /\ pc = "rest"
    /\ MaxWeek(schedule) < 2
    /\ pc' = "failed"
    /\ UNCHANGED schedule
    /\ UNCHANGED qbvars
    /\ UNCHANGED pagevars

InitRest ==
    /\ \E g \in [1..MaxRestGames -> RestInputs] :
          /\ g[1].step = 0
          /\ OneGameAWeek(RestFrameOf(g, MaxRestGames))
          /\ schedule = RestFrameOf(g, MaxRestGames)
    /\ pc = "rest"
    /\ NoQBElos
    /\ NoPages

NextRest == AddRest \/ AddRestFails

SpecRest == InitRest /\ [][NextRest]_vars

(***************************************************************************)
(* get_qb_elos: the loop over the frame new of starting-quarterback games. *)
(* by_team and by_opponent hold the rolling average VALUE per team and per *)
(* opponent, started from the first two seasons of the statistics.         *)
(***************************************************************************)
\* Number of quarterback games in the frame new.
MaxQBGames == 3

qb_regress_pct == Flt(0, 2500)

qb_games == Flt(10, 0)

team_games == Flt(20, 0)

elo_adj == Flt(3, 3000)

Players == {"P", "Q"}

best_qb_val == Flt(34, 3130)

qb_val_per_pick == Flt(0, -1370)

\* The draft results of the seasons start - 10 to finish: P was drafted as
\* a quarterback, R at another position, Q was not drafted.
DraftResults ==
    << [player |-> "P", pos |-> "QB", draft_pick |-> 1],
       [player |-> "R", pos |-> "WR", draft_pick |-> 40] >>

\* draft_pos.loc[qbs, "qb_value_init"]: set on the rows of quarterbacks, NaN
\* on every other row.
qb_value_init(rec) ==
    IF rec.pos = "QB"
    THEN FAdd(FMul(Flt(rec.draft_pick, 0), qb_val_per_pick), best_qb_val)
    ELSE Null

draft_pos ==
    [i \in DOMAIN DraftResults |->
        [player |-> DraftResults[i].player,
         qb_value_init |-> qb_value_init(DraftResults[i])]]

\* draft_pos.loc[draft_pos.player == player]
drafted(player) == {i \in DOMAIN draft_pos : draft_pos[i].player = player}

\* The observed VALUE of a game: none when the game is unplayed.
QBValues == {Null, Flt(12, 0)}

QBGameInputs ==
    [player : Players, sides : {<<"A", "B">>, <<"B", "A">>}, step : 0..1,
     VALUE : QBValues]

QBGameOf(g, i) ==
    [player |-> g[i].player,
     team |-> g[i].sides[1],
     opponent |-> g[i].sides[2],
     season |-> SeasonOf(g, i),
     VALUE |-> g[i].VALUE,
     qb_value_pre |-> Null,
     qb_value_post |-> Null,
     num_games |-> Null,
     team_qbvalue_avg |-> Null,
     opp_qbvalue_avg |-> Null,
     qb_adj |-> Null]

RECURSIVE QBFrameOf(_, _)
QBFrameOf(g, n) ==
    IF n = 0 THEN <<>> ELSE Append(QBFrameOf(g, n - 1), QBGameOf(g, n))

RECURSIVE SumOf(_, _)
SumOf(f, S) ==
    IF S = {} THEN Flt(0, 0)
    ELSE LET x == CHOOSE y \in S : TRUE
         IN  FAdd(f[x], SumOf(f, S \ {x}))

\* by_opponent.VALUE.mean()
MeanOf(f) == FDiv(SumOf(f, DOMAIN f), Flt(Cardinality(DOMAIN f), 0))

\* The earlier rows of the player of row i.
PrevQB(n, i) == {j \in 1..(i - 1) : n[j].player = n[i].player}

\* QBValuePre regressing at every change of season, whatever the number of
\* earlier games.
QBValuePre_AnyGames(n, i, avg_value) ==
    IF PrevQB(n, i) = {}
    THEN IF drafted(n[i].player) # {}
         THEN draft_pos[First(drafted(n[i].player))].qb_value_init
         ELSE Flt(0, 0)
    ELSE LET prev == n[Last(PrevQB(n, i))]
         IN  IF n[i].season > prev.season
             THEN FAdd(FMul(FSub(Flt(1, 0), qb_regress_pct), prev.qb_value_post),
                       FMul(qb_regress_pct, avg_value))
             ELSE prev.qb_value_post

\* qb_value_pre of row i: the draft prior or 0.0 for a first game, else the
\* last post-game value, regressed to avg_value in a new season for a
\* player with 10 to 100 earlier games.
QBValuePre(n, i, avg_value) ==
    IF PrevQB(n, i) = {}
    THEN IF drafted(n[i].player) # {}
         THEN draft_pos[First(drafted(n[i].player))].qb_value_init
         ELSE Flt(0, 0)
    ELSE LET prev == n[Last(PrevQB(n, i))]
         IN  IF /\ n[i].season > prev.season
                /\ Cardinality(PrevQB(n, i)) >= 10
                /\ Cardinality(PrevQB(n, i)) <= 100
             THEN FAdd(FMul(FSub(Flt(1, 0), qb_regress_pct), prev.qb_value_post),
                       FMul(qb_regress_pct, avg_value))
             ELSE prev.qb_value_post

\* x * (1 - 1 / games) + value / games
Rolled(x, value, games) ==
    FAdd(FMul(x, FSub(Flt(1, 0), FDiv(Flt(1, 0), games))), FDiv(value, games))

\* Row i after its pass of the loop.
QBGameRow(n, i, bt, bo) ==
    LET avg_value == MeanOf(bo)
        pre == QBValuePre(n, i, avg_value)
        opp_avg == FSub(bo[n[i].opponent], avg_value)
        value == FSub(n[i].VALUE, opp_avg)
        rated == [n[i] EXCEPT !.qb_value_pre = pre,
                              !.num_games = Flt(Cardinality(PrevQB(n, i)), 0),
                              !.team_qbvalue_avg = bt[n[i].team]]
    IN  IF isnull(n[i].VALUE)
        THEN [rated EXCEPT !.qb_value_post = pre]
        ELSE [rated EXCEPT !.opp_qbvalue_avg = opp_avg,
                           !.VALUE = value,
                           !.qb_value_post = Rolled(pre, value, qb_games)]

\* RolledAverages with the averages decayed for an unplayed game too.
RolledAverages_Decay(avgs, key, r) ==
    IF isnull(r.VALUE)
    THEN [avgs EXCEPT ![key] = FMul(@, FSub(Flt(1, 0), FDiv(Flt(1, 0), team_games)))]
    ELSE [avgs EXCEPT ![key] = Rolled(@, r.VALUE, team_games)]

\* by_team or by_opponent after the pass that produced row r, key being the
\* team or the opponent of the row.
RolledAverages(avgs, key, r) ==
    IF isnull(r.VALUE)
    THEN avgs
    ELSE [avgs EXCEPT ![key] = Rolled(@, r.VALUE, team_games)]

\* One pass of the loop over new.
NextQBGame ==
    /\ pc = "qb"
    /\ qb_ind <= Len(new)
    /\ LET r == QBGameRow(new, qb_ind, by_team, by_opponent)
       IN  /\ new' = [new EXCEPT ![qb_ind] = r]
           /\ by_opponent' = RolledAverages(by_opponent, r.opponent, r)
           /\ by_team' = RolledAverages(by_team, r.team, r)
    /\ qb_ind' = qb_ind + 1
    /\ UNCHANGED <<schedule, pc>>
    /\ UNCHANGED pagevars

\* new["qb_adj"] = elo_adj * (new.qb_value_pre - new.team_qbvalue_avg)
QBAdjRow(r) ==
    [r EXCEPT !.qb_adj = FMul(elo_adj, FSub(r.qb_value_pre, r.team_qbvalue_avg))]

RECURSIVE QBAdjFrame(_, _)
QBAdjFrame(n, k) ==
    IF k = 0 THEN <<>> ELSE Append(QBAdjFrame(n, k - 1), QBAdjRow(n[k]))

\* The end of the loop and the qb_adj column.
FinishQBElos ==
    /\ pc = "qb"
    /\ qb_ind > Len(new)
    /\ new' = QBAdjFrame(new, Len(new))
    /\ pc' = "qbdone"
    /\ UNCHANGED <<schedule, by_team, by_opponent, qb_ind>>
    /\ UNCHANGED pagevars

InitQBElos ==
    /\ \E g \in [1..MaxQBGames -> QBGameInputs] :
          /\ g[1].step = 0
          /\ new = QBFrameOf(g, MaxQBGames)
    /\ by_team = ("A" :> Flt(8, 0) @@ "B" :> Flt(4, 0))
    /\ by_opponent = ("A" :> Flt(6, 0) @@ "B" :> Flt(2, 0))
    /\ qb_ind = 1
    /\ schedule = <<>>
    /\ pc = "qb"
    /\ NoPages

NextQBElos == NextQBGame \/ FinishQBElos

SpecQBElos == InitQBElos /\ [][NextQBElos]_vars

(***************************************************************************)
(* get_qb_elos over the career of one quarterback: MaxCareer games of      *)
(* player P for team A, a new season starting every per_season games.      *)
(***************************************************************************)
MaxCareer == 102

MaxSeasonGames == 17

CareerValues == {Flt(12, 0), Flt(-4, 0)}

CareerGameOf(per_season, value, i) ==
    [player |-> "P",
     team |-> "A",
     opponent |-> "B",
     season |-> 1 + ((i - 1) \div per_season),
     VALUE |-> value,
     qb_value_pre |-> Null,
     qb_value_post |-> Null,
     num_games |-> Null,
     team_qbvalue_avg |-> Null,
     opp_qbvalue_avg |-> Null,
     qb_adj |-> Null]

InitQBCareer ==
    /\ \E per_season \in 1..MaxSeasonGames, value \in CareerValues :
          new = [i \in 1..MaxCareer |-> CareerGameOf(per_season, value, i)]
    /\ by_team = ("A" :> Flt(8, 0) @@ "B" :> Flt(4, 0))
    /\ by_opponent = ("A" :> Flt(6, 0) @@ "B" :> Flt(2, 0))
    /\ qb_ind = 1
    /\ schedule = <<>>
    /\ pc = "qb"
    /\ NoPages

SpecQBCareer == InitQBCareer /\ [][NextQBElos]_vars

(***************************************************************************)
(* get_qb_elos over the first games of three quarterbacks: P drafted as a  *)
(* quarterback, Q without a draft record, R drafted at another position.   *)
(***************************************************************************)
DebutPlayers == {"P", "Q", "R"}

DebutInputs ==
    [player : DebutPlayers, sides : {<<"A", "B">>}, step : 0..1,
     VALUE : QBValues]

InitQBDebut ==
    /\ \E g \in [1..MaxQBGames -> DebutInputs] :
          /\ g[1].step = 0
          /\ new = QBFrameOf(g, MaxQBGames)
    /\ by_team = ("A" :> Flt(8, 0) @@ "B" :> Flt(4, 0))
    /\ by_opponent = ("A" :> Flt(6, 0) @@ "B" :> Flt(2, 0))
    /\ qb_ind = 1
    /\ schedule = <<>>
    /\ pc = "qb"
    /\ NoPages

SpecQBDebut == InitQBDebut /\ [][NextQBElos]_vars

(***************************************************************************)
(* NFLCache and get_page.  Cache entries are keyed by endpoint and do not  *)
(* touch each other, so a behaviour follows the requests for one endpoint, *)
(* with the clock read in seconds.                                         *)
(***************************************************************************)
\* datetime.now().year, taken as fixed over the month a behaviour spans.
current_year == 2026

\* An endpoint by the patterns get_cache_type looks for: kind is the
\* pattern it matches, year the year int() reads in it (none: ValueError,
\* or a pattern without a year).
Endpoints ==
    { [kind |-> "boxscores", year |-> <<2019>>],
      [kind |-> "boxscores", year |-> <<2026>>],
      [kind |-> "games", year |-> <<2019>>],
      [kind |-> "games", year |-> <<2026>>],
      [kind |-> "games", year |-> <<>>],
      [kind |-> "draft", year |-> <<2026>>],
      [kind |-> "stadiums", year |-> <<>>],
      [kind |-> "other", year |-> <<>>] }

get_cache_type(endpoint) ==
    CASE endpoint.kind = "boxscores" ->
            IF endpoint.year # <<>> /\ endpoint.year[1] < current_year
            THEN "historical" ELSE "current_season"
      [] endpoint.kind = "games" ->
            IF endpoint.year # <<>> /\ endpoint.year[1] < current_year
            THEN "historical" ELSE "live_season"
      [] endpoint.kind = "draft" -> "draft"
      [] endpoint.kind = "stadiums" -> "stadiums"
      [] OTHER -> "current_season"

\* Seconds to expiration by cache type; <<>> is None (never expires).
durations ==
    [cache_type \in {"historical", "current_season", "live_season", "draft",
                     "stadiums"} |->
        CASE cache_type = "historical" -> <<>>
          [] cache_type = "current_season" -> <<24 * 60 * 60>>
          [] cache_type = "live_season" -> <<4 * 60 * 60>>
          [] cache_type = "draft" -> <<>>
          [] cache_type = "stadiums" -> <<30 * 24 * 60 * 60>>]

get_expiration_time(cache_type) ==
    IF durations[cache_type] = <<>> THEN <<>>
    ELSE <<now + durations[cache_type][1]>>

\* is_expired with the deadline itself counted as expired.
is_expired_AtDeadline(cache_key) ==
    IF cache_key \notin DOMAIN metadata THEN TRUE
    ELSE IF metadata[cache_key].expires_at = <<>> THEN FALSE
    ELSE now >= metadata[cache_key].expires_at[1]

is_expired(cache_key) ==
    IF cache_key \notin DOMAIN metadata THEN TRUE
    ELSE IF metadata[cache_key].expires_at = <<>> THEN FALSE
    ELSE now > metadata[cache_key].expires_at[1]

\* get_cached_page returns a page: the file exists, the entry is not
\* expired and the file can be read.
get_cached_page(endpoint) ==
    /\ endpoint \in DOMAIN cache_files
    /\ ~is_expired(endpoint)
    /\ cache_files[endpoint] = "page"

\* get_cached_page found a file it cannot read and removes the entry.
RemovesCorrupted(endpoint) ==
    /\ endpoint \in DOMAIN cache_files
    /\ ~is_expired(endpoint)
    /\ cache_files[endpoint] = "corrupt"

Without(f, key) == [k \in DOMAIN f \ {key} |-> f[k]]

\* cache_page; written is false when opening the cache file fails (IOError).
cache_page(endpoint, written) ==
    IF written
    THEN /\ cache_files' = (endpoint :> "page") @@ cache_files
         /\ metadata' =
               (endpoint :> [endpoint |-> endpoint,
                             cache_type |-> get_cache_type(endpoint),
                             cached_at |-> now,
                             expires_at |->
                                get_expiration_time(get_cache_type(endpoint))])
               @@ metadata
    ELSE UNCHANGED <<metadata, cache_files>>

\* get_page with cache_page called whether or not use_cache is set.
Cached_Always(use_cache, endpoint, written) == cache_page(endpoint, written)

\* if use_cache: cache.cache_page(endpoint, soup)
Cached(use_cache, endpoint, written) ==
    IF use_cache THEN cache_page(endpoint, written)
    ELSE UNCHANGED <<metadata, cache_files>>

\* Largest max_retries a caller passes.
MaxRetries == 2

\* The fetch get_page makes next in an attempt that starts.
FirstFetch_Cloudscraper(available) == "cloudscraper"

FirstFetch(available) == IF available THEN "flaresolverr" ELSE "cloudscraper"

\* A call of get_page up to its loop: the cache lookup, and on a miss the
\* result of ensure_flaresolverr.
GetPage ==
    /\ call.pc \in {"idle", "returned", "raised", "exited"}
    /\ \E use_cache \in BOOLEAN, max_retries \in 0..MaxRetries,
          available \in BOOLEAN :
          LET started == [call EXCEPT !.use_cache = use_cache,
                                      !.max_retries = max_retries,
                                      !.attempt = 0,
                                      !.flaresolverr_available = FALSE,
                                      !.fetches = <<>>,
                                      !.result = "none"]
          IN  IF use_cache /\ get_cached_page(call.endpoint)
              THEN /\ call' = [started EXCEPT !.pc = "returned",
                                              !.result = "cached"]
                   /\ UNCHANGED <<metadata, cache_files>>
              ELSE /\ IF use_cache /\ RemovesCorrupted(call.endpoint)
                      THEN /\ cache_files' = Without(cache_files, call.endpoint)
                           /\ metadata' = Without(metadata, call.endpoint)
                      ELSE UNCHANGED <<metadata, cache_files>>
                   /\ call' =
                         IF max_retries = 0
                         THEN [started EXCEPT
                                  !.flaresolverr_available = available,
                                  !.pc = "raised",
                                  !.result = "error"]
                         ELSE [started EXCEPT
                                  !.flaresolverr_available = available,
                                  !.pc = FirstFetch(available)]
    /\ UNCHANGED <<now, schedule, pc, qbvars>>

\* The call after a fetch by cloudscraper failed in the way given.
AfterFailure(c, outcome) ==
    IF c.attempt < c.max_retries - 1
    THEN [c EXCEPT !.attempt = c.attempt + 1,
                   !.pc = FirstFetch(c.flaresolverr_available)]
    ELSE IF outcome = "connection_error"
         THEN [c EXCEPT !.pc = "exited", !.result = "exit"]
         ELSE [c EXCEPT !.pc = "raised", !.result = "error"]

\* get_page_flaresolverr in an attempt.
TryFlaresolverr ==
    /\ call.pc = "flaresolverr"
    /\ \E outcome \in {"ok", "connection_error", "error"}, written \in BOOLEAN :
          LET fetched == [call EXCEPT !.fetches =
                             Append(@, [attempt |-> call.attempt,
                                        by |-> "flaresolverr"])]
          IN  CASE outcome = "ok" ->
                     /\ Cached(call.use_cache, call.endpoint, written)
                     /\ call' = [fetched EXCEPT !.pc = "returned",
                                                !.result = "page"]
                [] outcome = "connection_error" ->
                     /\ call' = [fetched EXCEPT
                                    !.flaresolverr_available = FALSE,
                                    !.pc = "cloudscraper"]
                     /\ UNCHANGED <<metadata, cache_files>>
                [] outcome = "error" ->
                     /\ call' = [fetched EXCEPT !.pc = "cloudscraper"]
                     /\ UNCHANGED <<metadata, cache_files>>
    /\ UNCHANGED <<now, schedule, pc, qbvars>>

\* The fetch by cloudscraper in an attempt, and the end of the attempt.
TryCloudscraper ==
    /\ call.pc = "cloudscraper"
    /\ \E outcome \in {"ok", "challenge", "connection_error", "error"},
          written \in BOOLEAN :
          LET fetched == [call EXCEPT !.fetches =
                             Append(@, [attempt |-> call.attempt,
                                        by |-> "cloudscraper"])]
          IN  IF outcome = "ok"
              THEN /\ Cached(call.use_cache, call.endpoint, written)
                   /\ call' = [fetched EXCEPT !.pc = "returned",
                                              !.result = "page"]
              ELSE /\ call' = AfterFailure(fetched, outcome)
                   /\ UNCHANGED <<metadata, cache_files>>
    /\ UNCHANGED <<now, schedule, pc, qbvars>>

\* The readings of time.time() a behaviour passes through, in seconds.
Readings ==
    {0, 4 * 60 * 60, 4 * 60 * 60 + 1, 24 * 60 * 60, 24 * 60 * 60 + 1,
     30 * 24 * 60 * 60, 30 * 24 * 60 * 60 + 1}

\* Time passes.
Tick ==
    /\ \E t \in Readings : t > now /\ now' = t
    /\ UNCHANGED <<metadata, cache_files, call, schedule, pc, qbvars>>

\* A cache file is damaged on disk and can no longer be read.
Corrupt ==
    /\ call.endpoint \in DOMAIN cache_files
    /\ cache_files[call.endpoint] = "page"
    /\ cache_files' = [cache_files EXCEPT ![call.endpoint] = "corrupt"]
    /\ UNCHANGED <<now, metadata, call, schedule, pc, qbvars>>

InitPages ==
    /\ now = 0
    /\ metadata = <<>>
    /\ cache_files = <<>>
    /\ \E endpoint \in Endpoints : call = NoCall(endpoint)
    /\ schedule = <<>>
    /\ pc = "pages"
    /\ NoQBElos

NextPages == GetPage \/ TryFlaresolverr \/ TryCloudscraper \/ Tick \/ Corrupt

SpecPages == InitPages /\ [][NextPages]_vars

(***************************************************************************)
(* add_game_coords and add_travel on one game of A (team1) and B (team2),  *)
(* at home or at a neutral site, followed by the forecast of the game.     *)
(* Places are miles along a line.                                          *)
(***************************************************************************)
\* coords1 and coords2: the home stadium of each team.
TeamCoords == ("A" :> 0) @@ ("B" :> Miles("A", "B"))

\* The coordinates of the stadiums of neutral-site games.
StadiumCoords == ("LON00" :> -3500) @@ ("MID00" :> 400)

\* game_coords: the home team's coordinates unless game_location is "N".
GameCoords(game_location, coords1, stadium_id) ==
    IF game_location = "N" THEN StadiumCoords[stadium_id] ELSE coords1

\* geodesic(a, b).mi
geodesic(a, b) == IF a < b THEN b - a ELSE a - b

SiteRatings == {Flt(1000, 0), Flt(1300, 0), Flt(1505, 0)}

\* game_location is "N", "@" or null (written "").
SiteInputs ==
    [elo1_pre : SiteRatings, elo2_pre : SiteRatings,
     week_num : {"1", "WildCard"}, game_location : {"N", "@", ""},
     stadium_id : DOMAIN StadiumCoords,
     rested1 : BOOLEAN, rested2 : BOOLEAN, scores : Outcomes]

SiteRow(in) ==
    LET game_coords ==
            GameCoords(in.game_location, TeamCoords["A"], in.stadium_id)
    IN  [season |-> 1,
         week_num |-> in.week_num,
         week |-> IF in.week_num = "1" THEN 1 ELSE 2,
         team1_abbrev |-> "A",
         team2_abbrev |-> "B",
         game_location |-> in.game_location,
         stadium_id |-> in.stadium_id,
         score1 |-> in.scores[1],
         score2 |-> in.scores[2],
         rested1 |-> in.rested1,
         rested2 |-> in.rested2,
         game_coords |-> game_coords,
         travel1 |-> Flt(geodesic(TeamCoords["A"], game_coords), 0),
         travel2 |-> Flt(geodesic(TeamCoords["B"], game_coords), 0),
         elo1_pre |-> in.elo1_pre, elo2_pre |-> in.elo2_pre,
         elo1_post |-> Null, elo2_post |-> Null,
         elo_diff |-> Null, point_spread |-> Null, elo_prob1 |-> Null,
         elo_prob2 |-> Null, score_diff |-> Null, forecast_delta |-> Null,
         mov_multiplier |-> Null, elo_delta |-> Null]

InitSite ==
    /\ \E in \in SiteInputs : schedule = <<SiteRow(in)>>
    /\ pc = "prob"
    /\ NoQBElos
    /\ NoPages

SpecSite == InitSite /\ [][NextRow]_vars

(***************************************************************************)
(* Properties.                                                             *)
(***************************************************************************)
Rows == DOMAIN schedule

Plays(i, t) == schedule[i].team1_abbrev = t \/ schedule[i].team2_abbrev = t

\* Pre- and post-game rating of team t in row i.
PreFor(i, t) ==
    IF schedule[i].team1_abbrev = t THEN schedule[i].elo1_pre ELSE schedule[i].elo2_pre

PostFor(i, t) ==
    IF schedule[i].team1_abbrev = t THEN schedule[i].elo1_post ELSE schedule[i].elo2_post

\* Row j has been given its pre-game ratings.
Rated(j) == ~isnull(schedule[j].elo1_pre)

\* The two teams of row j.
Sides(j) == {schedule[j].team1_abbrev, schedule[j].team2_abbrev}

\* Row i is the most recent game of team t before its game in row j.
MostRecent(i, j, t) ==
    /\ i < j
    /\ Plays(i, t)
    /\ Plays(j, t)
    /\ \A k \in (i + 1)..(j - 1) : ~Plays(k, t)

\* x == y of two floats: false when either is nan.
FSame(x, y) == ~isnull(x) /\ ~isnull(y) /\ x = y

\* R + (1505 - R) * 0.333
RegressedFrom(R) == FAdd(R, FMul(FSub(Flt(1505, 0), R), Flt(0, 3330)))

\* C1 as stated: a team whose last committed (post-game) rating in season S
\* is R starts its first game of season S+1 at R + (1505 - R) * 0.333,
\* whatever games of the log lie between the two games.
C1_RegressionWhateverLiesBetween ==
    \A t \in Teams : \A i, j \in Rows :
        ( /\ i < j /\ Plays(i, t) /\ Plays(j, t) /\ Rated(j)
          /\ ~isnull(PostFor(i, t))
          /\ schedule[j].season = schedule[i].season + 1
          /\ \A k \in Rows :
                (k > i /\ Plays(k, t) /\ schedule[k].season = schedule[i].season)
                    => isnull(PostFor(k, t))
          /\ \A k \in Rows :
                (k < j /\ Plays(k, t)) => schedule[k].season # schedule[j].season )
        => FSame(PreFor(j, t), RegressedFrom(PostFor(i, t)))

\* C1 amended: when the most recent game of a team before its game in row j
\* is a played game of the season before, with post-game rating R, the team
\* starts row j at R + (1505 - R) * 0.333, whatever games of other teams lie
\* between the two.
C1_SeasonRegression ==
    \A j \in Rows : Rated(j) =>
        \A t \in Sides(j) : \A i \in 1..(j - 1) :
            ( /\ MostRecent(i, j, t)
              /\ ~isnull(PostFor(i, t))
              /\ schedule[j].season = schedule[i].season + 1 )
            => FSame(PreFor(j, t), RegressedFrom(PostFor(i, t)))

\* A regression across a game of other teams, from a rating off the mean.
C1_Witness ==
    \E t \in Teams : \E i, j \in Rows :
        /\ MostRecent(i, j, t) /\ Rated(j) /\ j > i + 1
        /\ ~isnull(PostFor(i, t))
        /\ PostFor(i, t) # Flt(1505, 0)
        /\ schedule[j].season = schedule[i].season + 1

\* C2 as stated: a team whose last game in the log was in season S and whose
\* next game is in season S+2 or later starts that game at 1300, whatever
\* its last rating.
C2_DormancyResetAlways ==
    \A t \in Teams : \A i, j \in Rows :
        ( /\ MostRecent(i, j, t) /\ Rated(j)
          /\ schedule[j].season >= schedule[i].season + 2 )
        => FSame(PreFor(j, t), Flt(1300, 0))

\* C2 amended: a team whose last game in the log was played in season S
\* and whose next game is in season S+2 or later starts that game at 1300,
\* whatever its last rating.
C2_DormancyReset ==
    \A j \in Rows : Rated(j) =>
        \A t \in Sides(j) : \A i \in 1..(j - 1) :
            ( /\ MostRecent(i, j, t)
              /\ ~isnull(PostFor(i, t))
              /\ schedule[j].season >= schedule[i].season + 2 )
            => FSame(PreFor(j, t), Flt(1300, 0))

\* A team back after two or more seasons whose last rating was not 1300.
C2_Witness ==
    \E t \in Teams : \E i, j \in Rows :
        /\ MostRecent(i, j, t) /\ Rated(j)
        /\ ~isnull(PostFor(i, t))
        /\ PostFor(i, t) # Flt(1300, 0)
        /\ schedule[j].season >= schedule[i].season + 2

\* C3: a team with no earlier game in the log, as home or as away side, is
\* given exactly 1300.0 as its pre-game rating.
C3_NewEntrantDefault ==
    \A j \in Rows : Rated(j) =>
        \A t \in Sides(j) :
            (\A k \in 1..(j - 1) : ~Plays(k, t))
            => FSame(PreFor(j, t), Flt(1300, 0))

\* A team entering in a later row, against a team whose rating has moved.
C3_Witness ==
    \E t, u \in Teams : \E j \in Rows :
        /\ j > 1 /\ t # u /\ Plays(j, t) /\ Plays(j, u) /\ Rated(j)
        /\ \A k \in Rows : k < j => ~Plays(k, t)
        /\ PreFor(j, u) # Flt(1300, 0)

PostGameFields(r) ==
    {r.score_diff, r.forecast_delta, r.mov_multiplier, r.elo_delta,
     r.elo1_post, r.elo2_post}

\* C5: after the walk, every game whose two scores are both set or both
\* null has its six post-game fields present exactly when the scores are.
C5_PostFieldsIffScores ==
    pc = "done" =>
        \A i \in Rows :
            LET r == schedule[i]
            IN  (isnull(r.score1) <=> isnull(r.score2))
                => \A x \in PostGameFields(r) : (~isnull(x) <=> ~isnull(r.score1))

\* A finished walk over a log with an unplayed game before a played one.
C5_Witness ==
    /\ pc = "done"
    /\ \E i, j \in Rows :
          /\ i < j
          /\ isnull(schedule[i].score1) /\ isnull(schedule[i].score2)
          /\ ~isnull(schedule[j].score1) /\ ~isnull(schedule[j].score2)

\* Exactly one of the two scores of row i is null.
OneScoreNull(i) == isnull(schedule[i].score1) # isnull(schedule[i].score2)

\* C6: a record with exactly one score null is rejected: the walk does not
\* run to its end over it, and no rating delta or post-game rating is
\* written for it.
C6_OneNullScoreRejected ==
    \A i \in Rows :
        OneScoreNull(i)
        => /\ pc # "done"
           /\ isnull(schedule[i].elo_delta)
           /\ isnull(schedule[i].elo1_post)
           /\ isnull(schedule[i].elo2_post)

\* The log is in non-decreasing (season, week) order.
NonDecreasing ==
    \A i, j \in Rows :
        i < j => \/ schedule[i].season < schedule[j].season
                 \/ /\ schedule[i].season = schedule[j].season
                    /\ schedule[i].week <= schedule[j].week

\* C7: a log that is not in non-decreasing (season, week) order is reported:
\* the walk does not run to its end over it.
C7_OrderingViolationReported == pc = "done" => NonDecreasing

\* C8: no undefined or infinite value reaches the multiplier, the rating
\* delta or the post-game ratings, and where the denominator
\* elo_diff * 0.001 + 2.2 is 0 the multiplier is 0.0.
C8_DegenerateMovIsZero ==
    \A i \in Rows :
        LET r == schedule[i]
        IN  ~isnull(r.mov_multiplier)
            => /\ IsNum(r.mov_multiplier) /\ IsNum(r.elo_delta)
               /\ IsNum(r.elo1_post) /\ IsNum(r.elo2_post)
               /\ r.elo_diff = Flt(-2200, 0) => r.mov_multiplier = Flt(0, 0)

\* C9: when the most recent earlier game of a team has no post-game rating,
\* the team starts the current game at that game's pre-game rating,
\* unchanged.
C9_UnplayedPriorCarriesPre ==
    \A j \in Rows : Rated(j) =>
        \A t \in Sides(j) : \A i \in 1..(j - 1) :
            (MostRecent(i, j, t) /\ isnull(PostFor(i, t)))
            => FSame(PreFor(j, t), PreFor(i, t))

\* An unplayed prior game of the season before, at a rating a regression
\* or a reset would change.
C9_Witness ==
    \E t \in Teams : \E i, j \in Rows :
        /\ MostRecent(i, j, t) /\ Rated(j) /\ isnull(PostFor(i, t))
        /\ schedule[j].season = schedule[i].season + 1
        /\ PreFor(i, t) # Flt(1300, 0)
        /\ PreFor(i, t) # Flt(1505, 0)

\* (elo1_pre - elo2_pre) + 48 + 0.004 * (travel2 - travel1), + 25 if the
\* home side is rested, - 25 if the away side is, the whole times 1.2 in a
\* playoff game.
ClaimedDiff(r) ==
    LET gap == FSub(r.elo1_pre, r.elo2_pre)
        trip == FMul(Flt(0, 40), FSub(r.travel2, r.travel1))
        rest1 == IF r.rested1 THEN Flt(25, 0) ELSE Flt(0, 0)
        rest2 == IF r.rested2 THEN Flt(25, 0) ELSE Flt(0, 0)
        sum == FSub(FAdd(FAdd(FAdd(gap, Flt(48, 0)), trip), rest1), rest2)
    IN  IF r.week_num = "WildCard" THEN FMul(sum, Flt(1, 2000)) ELSE sum

\* C10: the adjusted differential is the rating gap plus home field, travel
\* and rest terms, all of it multiplied by 1.2 in a playoff game, and
\* point_spread is that result times 0.04.
C10_AdjustedDifferential ==
    \A i \in Rows :
        LET r == schedule[i]
        IN  ~isnull(r.elo_diff)
            => /\ r.elo_diff = ClaimedDiff(r)
               /\ r.point_spread = FMul(ClaimedDiff(r), Flt(0, 400))

\* A playoff game with a rested home side and unequal travel.
C10_Witness ==
    \E i \in Rows :
        LET r == schedule[i]
        IN  /\ ~isnull(r.elo_diff)
            /\ r.week_num = "WildCard"
            /\ r.rested1 /\ ~r.rested2
            /\ r.travel1 # r.travel2
            /\ r.elo1_pre # r.elo2_pre

\* Home field, travel and rest terms of a row: 48 + 0.004 * (travel2 -
\* travel1), + 25 if the home side is rested, - 25 if the away side is.
ClaimedAdjustments(r) ==
    LET trip == FMul(Flt(0, 40), FSub(r.travel2, r.travel1))
        rest1 == IF r.rested1 THEN Flt(25, 0) ELSE Flt(0, 0)
        rest2 == IF r.rested2 THEN Flt(25, 0) ELSE Flt(0, 0)
    IN  FSub(FAdd(FAdd(Flt(48, 0), trip), rest1), rest2)

\* 1 / (10 ** (d / -400) + 1)
ClaimedProb(d) ==
    FDiv(Flt(1, 0), FAdd(FPow10(FDiv(d, Flt(-400, 0))), Flt(1, 0)))

\* C11 as stated: in a playoff game the factor 1.2 scales the differential
\* as it stands before the home-field constant is added, the rating gap,
\* and the adjustments are added unscaled; spread and probability are
\* taken from the result.
C11_PlayoffScalesGapOnly ==
    \A i \in Rows :
        LET r == schedule[i]
            d == FAdd(FMul(FSub(r.elo1_pre, r.elo2_pre), Flt(1, 2000)),
                      ClaimedAdjustments(r))
        IN  (~isnull(r.elo_diff) /\ r.week_num = "WildCard")
            => /\ r.elo_diff = d
               /\ r.point_spread = FMul(d, Flt(0, 400))
               /\ r.elo_prob1 = ClaimedProb(d)

\* C11 amended: in a playoff game the factor 1.2 scales the differential
\* as it stands after the home-field, travel and rest terms are added, and
\* spread and probability are taken from the scaled result.
C11_PlayoffScalesAccumulated ==
    \A i \in Rows :
        LET r == schedule[i]
            d == FMul(FAdd(FSub(r.elo1_pre, r.elo2_pre), ClaimedAdjustments(r)),
                      Flt(1, 2000))
        IN  (~isnull(r.elo_diff) /\ r.week_num = "WildCard")
            => /\ r.elo_diff = d
               /\ r.point_spread = FMul(d, Flt(0, 400))
               /\ r.elo_prob1 = ClaimedProb(d)

\* A playoff game between unequal ratings given its probability.
C11_Witness ==
    \E i \in Rows :
        LET r == schedule[i]
        IN  /\ ~isnull(r.elo_prob1)
            /\ r.week_num = "WildCard"
            /\ r.elo1_pre = Flt(1505, 0) /\ r.elo2_pre = Flt(1300, 0)

\* Team t plays in week w of season n.
PlaysInWeek(t, n, w) ==
    \E k \in Rows :
        /\ schedule[k].season = n /\ schedule[k].week = w
        /\ t \in {schedule[k].team1, schedule[k].team2}

\* C12: after add_rest a side of a game of week w >= 2 of season S is
\* marked rested if and only if the team does not play in week w - 1 of
\* season S, whatever the games of other seasons.
C12_RestPerSeason ==
    pc = "rested" =>
        \A i \in Rows :
            LET r == schedule[i]
            IN  r.week >= 2
                => /\ r.rested1 <=> ~PlaysInWeek(r.team1, r.season, r.week - 1)
                   /\ r.rested2 <=> ~PlaysInWeek(r.team2, r.season, r.week - 1)

\* C13: after add_rest no side of a week-1 game is marked rested, and no
\* side that played in the week before, in the same season, is.
C13_NoRestWithoutBye ==
    pc = "rested" =>
        \A i \in Rows :
            LET r == schedule[i]
            IN  /\ r.week = 1 => (~r.rested1 /\ ~r.rested2)
                /\ (r.week >= 2 /\ PlaysInWeek(r.team1, r.season, r.week - 1))
                       => ~r.rested1
                /\ (r.week >= 2 /\ PlaysInWeek(r.team2, r.season, r.week - 1))
                       => ~r.rested2

\* x < y of two floats.
FLess(x, y) == IsNum(x) /\ IsNum(y) /\ x.v < y.v

\* Rows i and j have the same ratings, week tag and travel.
SameMatchup(i, j) ==
    /\ schedule[i].elo1_pre = schedule[j].elo1_pre
    /\ schedule[i].elo2_pre = schedule[j].elo2_pre
    /\ schedule[i].week_num = schedule[j].week_num
    /\ schedule[i].travel1 = schedule[j].travel1
    /\ schedule[i].travel2 = schedule[j].travel2

\* Both rows have been given their probabilities.
BothForecast(i, j) ==
    ~isnull(schedule[i].elo_prob1) /\ ~isnull(schedule[j].elo_prob1)

\* C14: of two games that differ only in one side being rested, the game
\* with the rested side has the adjusted differential strictly further in
\* that side's favour and a strictly higher win probability for it, in
\* regular-season and in playoff games.
C14_RestRaisesProbability ==
    \A i, j \in Rows :
        (BothForecast(i, j) /\ SameMatchup(i, j))
        => /\ ( /\ ~schedule[i].rested1 /\ schedule[j].rested1
                /\ schedule[i].rested2 = schedule[j].rested2 )
              => /\ FLess(schedule[i].elo_diff, schedule[j].elo_diff)
                 /\ FLess(schedule[i].elo_prob1, schedule[j].elo_prob1)
           /\ ( /\ ~schedule[i].rested2 /\ schedule[j].rested2
                /\ schedule[i].rested1 = schedule[j].rested1 )
              => /\ FLess(schedule[j].elo_diff, schedule[i].elo_diff)
                 /\ FLess(schedule[i].elo_prob2, schedule[j].elo_prob2)

\* A playoff pair that differs in the away side's rest, both forecast.
C14_Witness ==
    \E i, j \in Rows :
        /\ BothForecast(i, j) /\ SameMatchup(i, j)
        /\ schedule[i].week_num = "WildCard"
        /\ ~schedule[i].rested2 /\ schedule[j].rested2
        /\ schedule[i].rested1 = schedule[j].rested1

\* C15: every game given probabilities has elo_prob1 + elo_prob2 == 1, and
\* elo_prob1 == 0.5 when its adjusted differential is exactly 0.
C15_ProbabilitySymmetry ==
    \A i \in Rows :
        LET r == schedule[i]
        IN  ~isnull(r.elo_prob1)
            => /\ FSame(FAdd(r.elo_prob1, r.elo_prob2), Flt(1, 0))
               /\ r.elo_diff = Flt(0, 0) => r.elo_prob1 = Flt(0, 5000)

\* A game forecast at an adjusted differential of exactly 0.
C15_Witness ==
    \E i \in Rows :
        /\ ~isnull(schedule[i].elo_prob1)
        /\ schedule[i].elo_diff = Flt(0, 0)

DerivedFields ==
    {"elo1_pre", "elo2_pre", "elo_diff", "point_spread", "elo_prob1", "elo_prob2",
     "mov_multiplier", "elo_delta", "elo1_post", "elo2_post"}

\* C16: no step of the walk changes a derived field that has been written,
\* and a step changes the fields of one game at most.
C16_DerivedFieldsWrittenOnce ==
    [][ /\ \A i \in Rows : \A f \in DerivedFields :
              ~isnull(schedule[i][f]) => schedule'[i][f] = schedule[i][f]
        /\ Cardinality({i \in Rows : schedule'[i] # schedule[i]}) <= 1 ]_vars

\* A played game complete with its post-game ratings and a later game
\* already forecast.
C16_Witness ==
    \E i, j \in Rows :
        /\ i < j
        /\ ~isnull(schedule[i].elo1_post)
        /\ ~isnull(schedule[j].elo_prob1)

\* C17: the probability step changes no pre-game and no post-game rating
\* of any game, and with QB adjustments for both sides it writes the QB-aware
\* differential, spread and probabilities in fields of their own while
\* elo_diff, point_spread, elo_prob1 and elo_prob2 get the values computed
\* without the QB adjustments.
C17_ProbStepKeepsBaseValues ==
    [][ pc = "prob" =>
          /\ \A i \in Rows :
                /\ schedule'[i].elo1_pre = schedule[i].elo1_pre
                /\ schedule'[i].elo2_pre = schedule[i].elo2_pre
                /\ schedule'[i].elo1_post = schedule[i].elo1_post
                /\ schedule'[i].elo2_post = schedule[i].elo2_post
          /\ \A i \in Rows :
                LET r == schedule'[i]
                    q == FSub(FAdd(ClaimedDiff(r), r.qb1_adj), r.qb2_adj)
                IN  (isnull(schedule[i].elo_prob1) /\ ~isnull(r.elo_prob1))
                    => /\ r.elo_diff = ClaimedDiff(r)
                       /\ r.point_spread = FMul(ClaimedDiff(r), Flt(0, 400))
                       /\ r.elo_prob1 = ClaimedProb(ClaimedDiff(r))
                       /\ r.elo_prob2 = FSub(Flt(1, 0), r.elo_prob1)
                       /\ r.qbelo_diff = q
                       /\ r.qbpoint_spread = FMul(q, Flt(0, 400))
                       /\ r.qbelo_prob1 = ClaimedProb(q)
                       /\ r.qbelo_prob2 = FSub(Flt(1, 0), r.qbelo_prob1) ]_vars

\* A game forecast with unequal QB adjustments after a played game.
C17_Witness ==
    \E i, j \in Rows :
        /\ i < j
        /\ ~isnull(schedule[i].elo1_post)
        /\ ~isnull(schedule[j].qbelo_prob1)
        /\ schedule[j].qbelo_diff # schedule[j].elo_diff

\* x is within tol / Scale of whole + frac / Scale.
About(x, whole, frac, tol) ==
    IsNum(x) /\ Abs(x.v - (whole * Scale + frac)) <= tol

\* The scenario: a regular-season week-1 game, neither side rested, no
\* travel, won 24 to 17 by the home side.
OpeningScenario(r) ==
    /\ r.week_num = "1"
    /\ ~r.rested1 /\ ~r.rested2
    /\ r.travel1 = Flt(0, 0) /\ r.travel2 = Flt(0, 0)
    /\ r.score1 = Flt(24, 0) /\ r.score2 = Flt(17, 0)

\* What the scenario gives up to the forecast error: ratings 1300, adjusted
\* differential 48, spread about 1.92, home probability about 0.5687,
\* score_diff 7, forecast_delta about 0.4313.
ScenarioForecast(r) ==
    /\ r.elo1_pre = Flt(1300, 0) /\ r.elo2_pre = Flt(1300, 0)
    /\ r.elo_diff = Flt(48, 0)
    /\ About(r.point_spread, 1, 9200, 50)
    /\ About(r.elo_prob1, 0, 5687, 5)
    /\ r.score_diff = Flt(7, 0)
    /\ About(r.forecast_delta, 0, 4313, 5)

\* C19 as stated: the scenario ends with mov_multiplier about 1.872,
\* rating delta about 16.14, elo1_post about 1316.14 and elo2_post about
\* 1283.86.
C19_ScenarioAsStated ==
    (pc = "done" /\ OpeningScenario(schedule[1]))
    => /\ ScenarioForecast(schedule[1])
       /\ About(schedule[1].mov_multiplier, 1, 8720, 50)
       /\ About(schedule[1].elo_delta, 16, 1400, 50)
       /\ About(schedule[1].elo1_post, 1316, 1400, 50)
       /\ About(schedule[1].elo2_post, 1283, 8600, 50)

\* C19 amended: the scenario ends with mov_multiplier about 2.035, rating
\* delta about 17.56, elo1_post about 1317.56 and elo2_post about 1282.44.
C19_Scenario ==
    (pc = "done" /\ OpeningScenario(schedule[1]))
    => /\ ScenarioForecast(schedule[1])
       /\ About(schedule[1].mov_multiplier, 2, 350, 50)
       /\ About(schedule[1].elo_delta, 17, 5600, 50)
       /\ About(schedule[1].elo1_post, 1317, 5600, 50)
       /\ About(schedule[1].elo2_post, 1282, 4400, 50)

\* The scenario walked to its end.
C19_Witness ==
    /\ pc = "done"
    /\ OpeningScenario(schedule[1])
    /\ ~isnull(schedule[1].elo1_post)

\* C20: the pass over an unplayed game (no observed VALUE) sets the
\* quarterback's post-game value to his pre-game value and leaves the
\* averages per team and per opponent as they are.
C20_UnplayedKeepsQBValue ==
    [][ (pc = "qb" /\ qb_ind <= Len(new) /\ isnull(new[qb_ind].VALUE))
        => /\ ~isnull(new'[qb_ind].qb_value_pre)
           /\ new'[qb_ind].qb_value_post = new'[qb_ind].qb_value_pre
           /\ by_team' = by_team
           /\ by_opponent' = by_opponent ]_vars

\* An unplayed game passed after a played game of the same quarterback
\* moved his value and the averages.
C20_Witness ==
    \E i, j \in DOMAIN new :
        /\ i < j /\ j < qb_ind
        /\ new[i].player = new[j].player
        /\ ~isnull(new[i].VALUE)
        /\ isnull(new[j].VALUE)
        /\ new[j].qb_value_post # new[i].qb_value_pre

\* The row before row i of the same quarterback, and the number of his
\* earlier rows.
PriorGame(i) == new[Last(PrevQB(new, i))]

PriorGames(i) == Cardinality(PrevQB(new, i))

\* The prior post-game value regressed to the average over the opponents.
RegressedValue(i) ==
    FAdd(FMul(Flt(0, 7500), PriorGame(i).qb_value_post),
         FMul(Flt(0, 2500), MeanOf(by_opponent)))

\* C21: the pass over a game of a quarterback with earlier games regresses
\* the carried value to the league average by regress_pct if and only if the
\* game is in a later season than his previous game and he has at least 10
\* and at most 100 earlier games; otherwise the previous post-game value is
\* carried over unchanged.
C21_QBRegressionWindow ==
    [][ (pc = "qb" /\ qb_ind <= Len(new) /\ PrevQB(new, qb_ind) # {})
        => new'[qb_ind].qb_value_pre =
              IF /\ new[qb_ind].season > PriorGame(qb_ind).season
                 /\ PriorGames(qb_ind) >= 10
                 /\ PriorGames(qb_ind) <= 100
              THEN RegressedValue(qb_ind)
              ELSE PriorGame(qb_ind).qb_value_post ]_vars

\* A first game of a season after exactly 10 earlier games carries a
\* regressed value, and a first game of a season after more than 100 earlier
\* games carries the previous value.
C21_Witness ==
    /\ qb_ind > MaxCareer
    /\ new[11].season > new[10].season
    /\ new[11].qb_value_pre # new[10].qb_value_post
    /\ new[MaxCareer].season > new[MaxCareer - 1].season
    /\ new[MaxCareer].qb_value_pre = new[MaxCareer - 1].qb_value_post

\* C22: a quarterback with no earlier game starts with a defined value: the
\* draft prior when he has a draft record, 0.0 when he has none.
C22_DebutValueDefined ==
    \A i \in DOMAIN new :
        (i < qb_ind /\ PrevQB(new, i) = {})
        => /\ ~isnull(new[i].qb_value_pre)
           /\ drafted(new[i].player) = {} => new[i].qb_value_pre = Flt(0, 0)

\* Seconds since the page of the endpoint was cached.
Elapsed(endpoint) == now - metadata[endpoint].cached_at

\* Expiration as claimed, by the type of the entry.
ClaimedExpired(endpoint) ==
    LET type == metadata[endpoint].cache_type
    IN  CASE type \in {"historical", "draft"} -> FALSE
          [] type = "stadiums" -> Elapsed(endpoint) > 30 * 24 * 60 * 60
          [] type = "live_season" -> Elapsed(endpoint) > 4 * 60 * 60
          [] OTHER -> Elapsed(endpoint) > 24 * 60 * 60

\* C23: an entry of type historical or draft is never expired, a stadiums
\* entry is expired once more than 30 days have passed since it was cached,
\* a live_season entry after more than 4 hours, any other entry after more
\* than 24 hours; and get_cached_page returns the page only of an entry that
\* is not expired.
C23_ExpirationByType ==
    /\ [](\A endpoint \in DOMAIN metadata :
             is_expired(endpoint) = ClaimedExpired(endpoint))
    /\ [][ (call' # call /\ call'.result = "cached")
           => /\ call.endpoint \in DOMAIN metadata
              /\ ~ClaimedExpired(call.endpoint) ]_vars

\* A live_season page cached more than 4 hours ago and still on disk, with
\* a call that looked it up and now fetches the page again.
C23_Witness ==
    /\ call.endpoint \in DOMAIN metadata
    /\ metadata[call.endpoint].cache_type = "live_season"
    /\ Elapsed(call.endpoint) = 4 * 60 * 60 + 1
    /\ cache_files[call.endpoint] = "page"
    /\ call.use_cache
    /\ call.pc \in {"flaresolverr", "cloudscraper"}
    /\ call.fetches = <<>>

\* The fetches a call has made in its attempt a.
FetchesOf(c, a) == {i \in DOMAIN c.fetches : c.fetches[i].attempt = a}

\* The step makes a fetch by the given method.
Fetches(by) ==
    /\ Len(call'.fetches) = Len(call.fetches) + 1
    /\ call'.fetches[Len(call'.fetches)].by = by

\* C24: a call with use_cache set that finds an unexpired cached page
\* returns it without a fetch by FlareSolverr or cloudscraper; otherwise
\* every attempt starts with FlareSolverr when it is available, and
\* cloudscraper is tried only when FlareSolverr is unavailable or has
\* failed in the same attempt.
C24_CacheThenFlaresolverrFirst ==
    [][ /\ ( /\ call.pc \in {"idle", "returned", "raised", "exited"}
             /\ call' # call
             /\ call'.use_cache
             /\ call.endpoint \in DOMAIN metadata
             /\ ~ClaimedExpired(call.endpoint)
             /\ call.endpoint \in DOMAIN cache_files
             /\ cache_files[call.endpoint] = "page" )
           => /\ call'.pc = "returned"
              /\ call'.result = "cached"
              /\ call'.fetches = <<>>
        /\ ( /\ call' # call
             /\ call'.pc \in {"flaresolverr", "cloudscraper"}
             /\ FetchesOf(call', call'.attempt) = {}
             /\ call'.flaresolverr_available )
           => call'.pc = "flaresolverr"
        /\ Fetches("flaresolverr")
           => /\ call.flaresolverr_available
              /\ FetchesOf(call, call.attempt) = {}
        /\ Fetches("cloudscraper")
           => \/ /\ ~call.flaresolverr_available
                 /\ FetchesOf(call, call.attempt) = {}
              \/ /\ call.fetches # <<>>
                 /\ call.fetches[Len(call.fetches)] =
                       [attempt |-> call.attempt, by |-> "flaresolverr"]
      ]_vars

\* A call that missed an expired page and fell back from FlareSolverr to
\* cloudscraper in its first attempt and went to FlareSolverr again in its
\* second.
C24_Witness ==
    /\ call.use_cache
    /\ call.endpoint \in DOMAIN metadata
    /\ is_expired(call.endpoint)
    /\ Len(call.fetches) = 3
    /\ call.fetches[1] = [attempt |-> 0, by |-> "flaresolverr"]
    /\ call.fetches[2] = [attempt |-> 0, by |-> "cloudscraper"]
    /\ call.fetches[3] = [attempt |-> 1, by |-> "flaresolverr"]

\* The step writes a page to the cache.
WritesPage ==
    \E endpoint \in DOMAIN cache_files' :
        /\ cache_files'[endpoint] = "page"
        /\ \/ endpoint \notin DOMAIN cache_files
           \/ cache_files[endpoint] # "page"
           \/ endpoint \notin DOMAIN metadata
           \/ metadata'[endpoint] # metadata[endpoint]

\* The fetches of a call by one method.
FetchesBy(c, by) == {i \in DOMAIN c.fetches : c.fetches[i].by = by}

\* C30: get_page writes a page to the cache only in a step whose fetch
\* succeeded and only with use_cache set; a fetch that fails or meets a
\* Cloudflare challenge, and every step of a call without use_cache, leave
\* the cache as it is; a call makes at most max_retries attempts, and when
\* it has ended it has returned a page or ended in an error.
C30_CacheWrittenOnSuccessOnly ==
    /\ [][ /\ WritesPage
              => /\ call.use_cache
                 /\ call.pc \in {"flaresolverr", "cloudscraper"}
                 /\ call'.pc = "returned"
                 /\ call'.result = "page"
           /\ ( /\ call.pc \in {"flaresolverr", "cloudscraper"}
                /\ call' # call
                /\ call'.result # "page" )
              => UNCHANGED <<metadata, cache_files>>
           /\ (call' # call /\ ~call'.use_cache)
              => UNCHANGED <<metadata, cache_files>>
         ]_vars
    /\ [](/\ \A i \in DOMAIN call.fetches :
                call.fetches[i].attempt < call.max_retries
          /\ Cardinality(FetchesBy(call, "flaresolverr")) <= call.max_retries
          /\ Cardinality(FetchesBy(call, "cloudscraper")) <= call.max_retries
          /\ call.pc = "returned" => call.result \in {"page", "cached"}
          /\ call.pc \in {"raised", "exited"}
                => call.result \in {"error", "exit"})

\* A call without use_cache that failed in every fetch but its last, with
\* MaxRetries attempts, and left the cache empty.
C30_Witness ==
    /\ ~call.use_cache
    /\ call.pc = "returned"
    /\ call.result = "page"
    /\ call.max_retries = MaxRetries
    /\ Len(call.fetches) = 2 * MaxRetries
    /\ metadata = <<>>
    /\ cache_files = <<>>

\* The rows with pre-game ratings, the rows with probabilities, and the
\* rows a step changes.
RatedRows == {i \in Rows : ~isnull(schedule[i].elo1_pre)}

ForecastRows == {i \in Rows : ~isnull(schedule[i].elo_prob1)}

ChangedRows == {i \in Rows : schedule'[i] # schedule[i]}

\* C25: in every iteration of the walk next_init_elo, next_elo_prob and
\* next_elo_delta select the same row, the first one without pre-game
\* ratings, also when earlier unplayed rows have no delta; after every
\* iteration the rows with pre-game ratings and the rows with probabilities
\* are the same prefix of the log.
C25_StepsShareTheGame ==
    /\ [](/\ pc = "prob"
             => /\ RatedRows # {}
                /\ ProbIndex(schedule) = Last(RatedRows)
          /\ pc = "delta"
             => /\ PendingDelta(schedule) # {}
                /\ DeltaIndex(schedule) = Last(RatedRows)
          /\ pc \in {"init", "done"}
             => /\ RatedRows = ForecastRows
                /\ RatedRows = 1..Cardinality(RatedRows))
    /\ [][ /\ pc = "init" /\ pc' = "prob"
              => ChangedRows = {Cardinality(RatedRows) + 1}
           /\ pc = "prob" => ChangedRows = {Cardinality(RatedRows)}
           /\ pc = "delta" => ChangedRows \subseteq {Cardinality(RatedRows)}
         ]_vars

\* The third iteration has ended with a played game updated in row 3 while
\* the unplayed games of rows 1 and 2 still have no delta.
C25_Witness ==
    /\ pc = "init"
    /\ Len(schedule) = MaxGames
    /\ RatedRows = 1..3
    /\ ~isnull(schedule[3].elo_delta)
    /\ ~Played(schedule[1]) /\ isnull(schedule[1].elo_delta)
    /\ ~Played(schedule[2]) /\ isnull(schedule[2].elo_delta)

\* C26: the walk terminates; every iteration gives pre-game ratings to
\* exactly one further row, the next one in row order, so that a log of N
\* games takes N iterations, and the walk ends with every row holding
\* pre-game ratings and probabilities.
C26_WalkTerminates ==
    /\ <>(pc = "done")
    /\ [](pc = "done" => RatedRows = Rows /\ ForecastRows = Rows)
    /\ [][ /\ pc = "init" /\ pc' = "prob"
              => /\ Cardinality(RatedRows) < Len(schedule)
                 /\ RatedRows' = RatedRows \cup {Cardinality(RatedRows) + 1}
           /\ pc # "init" => RatedRows' = RatedRows
         ]_vars

\* The walk has ended on a log that mixes played and unplayed games.
C26_Witness ==
    /\ pc = "done"
    /\ Len(schedule) = MaxGames
    /\ RatedRows = Rows
    /\ \E i, j \in Rows : Played(schedule[i]) /\ ~Played(schedule[j])

\* Row i is a completed game with equal scores.
Tied(i) ==
    /\ IsNum(schedule[i].score1)
    /\ IsNum(schedule[i].score2)
    /\ schedule[i].score1 = schedule[i].score2

\* C27: a completed game that ends in a tie has mov_multiplier 0 and rating
\* delta 0 and leaves both ratings as they were, whatever its probability,
\* for every adjusted differential other than -2200.
C27_TieChangesNoRating ==
    \A i \in Rows :
        ( /\ pc = "init"
          /\ Tied(i)
          /\ ~isnull(schedule[i].elo_prob1)
          /\ schedule[i].elo_diff # Flt(-2200, 0) )
        => /\ schedule[i].mov_multiplier = Flt(0, 0)
           /\ schedule[i].elo_delta = Flt(0, 0)
           /\ schedule[i].elo1_post = schedule[i].elo1_pre
           /\ schedule[i].elo2_post = schedule[i].elo2_pre

\* A tie of a clear favourite: the forecast was off by a wide margin and
\* the ratings stay.
C27_Witness ==
    /\ pc = "init"
    /\ Tied(1)
    /\ schedule[1].elo1_pre = Flt(1505, 0)
    /\ schedule[1].elo2_pre = Flt(1000, 0)
    /\ FLess(Flt(0, 9000), schedule[1].elo_prob1)
    /\ schedule[1].forecast_delta # Flt(0, 0)
    /\ schedule[1].elo1_post = Flt(1505, 0)

\* The fields merged in or written for the QB adjustments.
QBFields ==
    {"qb1_adj", "qb2_adj", "qbelo1_pre", "qbelo2_pre", "qbelo_diff",
     "qbpoint_spread", "qbelo_prob1", "qbelo_prob2"}

\* The log without its QB fields: the same games in the same order.
WithoutQB(s) ==
    [i \in DOMAIN s |-> [f \in DOMAIN s[i] \ QBFields |-> s[i][f]]]

\* C28: team ratings do not depend on the QB adjustments: every step of the
\* walk on a log with QB fields leaves, in the base fields, what the same
\* step leaves on the same log without QB fields, so every elo pre, post,
\* probability and delta is the same with and without them.
C28_RatingsIgnoreQB ==
    [][ LET plain == WithoutQB(schedule)
        IN  /\ (pc = "init" /\ pc' = "prob")
               => WithoutQB(schedule') =
                     [plain EXCEPT ![InitIndex(plain)] =
                         InitEloRow(plain, InitIndex(plain))]
            /\ pc = "prob"
               => WithoutQB(schedule') =
                     [plain EXCEPT ![ProbIndex(plain)] =
                         EloProbRow(plain[ProbIndex(plain)])]
            /\ pc = "delta"
               => WithoutQB(schedule') =
                     [plain EXCEPT ![DeltaIndex(plain)] =
                         EloDeltaRow(plain[DeltaIndex(plain)])]
      ]_vars

\* The walk has ended on two played games whose sides had unequal, non-zero
\* QB adjustments, and the ratings have moved.
C28_Witness ==
    /\ pc = "done"
    /\ \A i \in Rows :
          /\ HasQB(schedule[i])
          /\ Played(schedule[i])
          /\ schedule[i].qb1_adj = Flt(49, 5000)
          /\ schedule[i].qb2_adj = Flt(-33, 0)
          /\ schedule[i].qbelo_prob1 # schedule[i].elo_prob1
          /\ schedule[i].elo1_post # schedule[i].elo1_pre

\* The distance of a place from the site of the game of row r: the stadium
\* looked up for a neutral-site game, the home team's stadium otherwise.
MilesToGame(r, place) ==
    LET site == IF r.game_location = "N"
                THEN (IF r.stadium_id = "LON00" THEN -3500 ELSE 400)
                ELSE 0
    IN  IF place < site THEN site - place ELSE place - site

\* C29: the differential of every game holds the home-field constant 48,
\* at a neutral site as well; the site of the game enters only through the
\* miles the two teams travel to it.
C29_HomeFieldAtEverySite ==
    \A i \in Rows :
        ~isnull(schedule[i].elo_diff)
        => LET r == schedule[i]
               gap == FSub(r.elo1_pre, r.elo2_pre)
               trip == FMul(Flt(0, 40),
                            FSub(Flt(MilesToGame(r, 1000), 0),
                                 Flt(MilesToGame(r, 0), 0)))
               rest1 == IF r.rested1 THEN Flt(25, 0) ELSE Flt(0, 0)
               rest2 == IF r.rested2 THEN Flt(25, 0) ELSE Flt(0, 0)
               sum == FSub(FAdd(FAdd(FAdd(gap, Flt(48, 0)), trip), rest1), rest2)
           IN  r.elo_diff =
                  IF r.week_num = "WildCard" THEN FMul(sum, Flt(1, 2000)) ELSE sum

\* A forecast game of two equal teams at a neutral site 400 and 600 miles
\* from their homes: the differential is 48 + 0.004 * 200.
C29_Witness ==
    /\ schedule[1].game_location = "N"
    /\ schedule[1].week_num = "1"
    /\ schedule[1].elo1_pre = schedule[1].elo2_pre
    /\ schedule[1].rested1 = schedule[1].rested2
    /\ schedule[1].travel1 = Flt(400, 0)
    /\ schedule[1].travel2 = Flt(600, 0)
    /\ schedule[1].elo_diff = Flt(48, 8000)

====
